---- MODULE Spec2Model ----
(***************************************************************************)
(* Model of the CONS3RT inventory plugin (plugins/inventory/cons3rt.py):   *)
(* the retrying HTTP GET of Session, the three API operations, the         *)
(* two-stage thread-pool fetch of InventoryModule._get_hosts, the sort of  *)
(* _query, the population of the inventory and the cache logic of parse.   *)
(***************************************************************************)
EXTENDS Integers, Sequences, FiniteSets, TLC

VARIABLES
    get,        \* one Session.http_get call: its locals and position
    call,       \* one Session.parse_response call: its argument and outcome
    remote,     \* the deployment runs the CONS3RT API serves, with their hosts
    options,    \* the plugin's options: the cache directive and the credentials
    cache,      \* self._cache[cache_key]
    cacheLog,   \* the reads and writes of self._cache[cache_key] in this parse
    pc,         \* position of InventoryModule.parse
    locals,     \* parse's locals: cache, cache_needs_update
    todo,       \* the calls _get_hosts has still to submit to the current pool
    tasks,      \* the futures of the current ThreadPoolExecutor, in submission order
    sink,       \* the inventory parse was given
    error,      \* the exception parse raised
    issued,     \* targets http_get was called with in this parse
    badStatus,  \* some response of this parse had a status other than 200 and 202
    delivered   \* the results the last parse handed to _populate

getVars == <<get>>
parseVars == <<remote, options, cache, cacheLog, pc, locals, todo, tasks, sink,
               error, issued, badStatus, delivered>>
vars == <<get, call, remote, options, cache, cacheLog, pc, locals, todo, tasks,
          sink, error, issued, badStatus, delivered>>

----------------------------------------------------------------------------
(* Session.__init__ *)
max_retry_attempts == 10
retry_time_sec == 5

(* Values of the target argument: None, a non-string, the empty string and
   a path.  Python values are tagged with their type. *)
NoneTarget == [type |-> "NoneType", val |-> <<>>]
IntTarget == [type |-> "int", val |-> <<"7">>]
EmptyTarget == [type |-> "str", val |-> <<>>]
StrTarget(path) == [type |-> "str", val |-> path]

(* Network-level failures raised by s.get(url).  SSLError is a subclass of
   RequestException in requests. *)
ExcTexts == {"ConnectionError", "SSLError"}

(* The HTTP statuses and body shapes a response can have.  "payload" is the
   JSON document of the entity asked for, "errjson" a JSON object without
   the entity's fields, "garbage" a body that is not JSON. *)
StatusCodes == {200, 202, 404}
BodyKinds == {"payload", "errjson", "garbage"}

NoResponse == [kind |-> "none", status_code |-> 0, body |-> "none", text |-> "none"]
Response(status, body) ==
    [kind |-> "response", status_code |-> status, body |-> body, text |-> "none"]
NetworkError(text) ==
    [kind |-> "exception", status_code |-> 0, body |-> "none", text |-> text]

Responses == {Response(s, b) : s \in StatusCodes, b \in BodyKinds}
Outcomes == Responses \cup {NetworkError(e) : e \in ExcTexts}

NoError == [type |-> "none", text |-> "none", tally |-> <<>>]
Error(type, text, tally) == [type |-> type, text |-> text, tally |-> tally]

(* Session.validate_target: None or a non-str is rejected. *)
ValidTarget(target) == target.type = "str"

(* 'RequestException on GET attempt #{n}\n{e}': both except clauses name
   RequestException or its subclass, so the first clause takes them all. *)
AttemptMsg(n, exc) == [label |-> "RequestException", attempt |-> n, text |-> exc.text]

(* The locals of http_get at the top of its while loop. *)
HttpGetStart(target) ==
    [pc |-> "loop", target |-> target, attempt_num |-> 1, err_msg_tally |-> <<>>,
     gets |-> 0, slept |-> 0, log |-> <<>>, response |-> NoResponse, error |-> NoError]

HttpGetIdle ==
    [pc |-> "idle", target |-> NoneTarget, attempt_num |-> 1, err_msg_tally |-> <<>>,
     gets |-> 0, slept |-> 0, log |-> <<>>, response |-> NoResponse, error |-> NoError]

(* The entry of http_get: validate_target, then the loop's initial locals. *)
HttpGetEnter(target) ==
    IF ValidTarget(target)
    THEN HttpGetStart(target)
    ELSE [HttpGetStart(target) EXCEPT
            !.pc = "raised",
            !.error = Error("Cons3rtClientError", "Invalid target arg provided", <<>>)]

(* The limit put on the retries made so far instead of the attempt number. *)
RetriesExceeded(st) == st.attempt_num - 1 > max_retry_attempts

(* The attempt-limit test at the top of the loop. *)
AttemptsExceeded(st) == st.attempt_num >= max_retry_attempts

(* One iteration of the while loop, given what s.get(url) does in it. *)
HttpGetIter(st, outcome) ==
    IF AttemptsExceeded(st)
    THEN [st EXCEPT !.pc = "raised",
                    !.error = Error("Cons3rtClientError", "Max attempts exceeded",
                                    st.err_msg_tally)]
    ELSE IF outcome.kind = "exception"
    THEN [st EXCEPT !.err_msg_tally = Append(@, AttemptMsg(st.attempt_num, outcome)),
                    !.attempt_num = @ + 1,
                    !.gets = @ + 1,
                    !.log = Append(@, outcome),
                    !.slept = @ + retry_time_sec]
    ELSE [st EXCEPT !.pc = "returned",
                    !.gets = @ + 1,
                    !.log = Append(@, outcome),
                    !.response = outcome]

(* A whole http_get call against a network that fails `failures` times in a
   row and then answers `resp`: the loop is run to its return or raise. *)
NetBehaviour(failures, resp) ==
    [i \in 1..(failures + 1) |->
        IF i <= failures THEN NetworkError("ConnectionError") ELSE resp]

RECURSIVE HttpGetLoop(_, _)
HttpGetLoop(st, behaviour) ==
    IF st.pc # "loop"
    THEN st
    ELSE HttpGetLoop(HttpGetIter(st, behaviour[st.gets + 1]), behaviour)

http_get(target, failures, resp) ==
    HttpGetLoop(HttpGetEnter(target), NetBehaviour(failures, resp))

----------------------------------------------------------------------------
(* The remote API.  Python strings are sequences; the empty string is <<>>. *)

RESERVED == <<"RESERVED">>
RunId(i) == 10 * i
RunName(i) == <<"dr", i>>
HostName(h) == <<"host", h>>

DrsTarget == StrTarget(<<"/api/drs?search_type=SEARCH_AVAILABLE&in_project=true">>)
DrTarget(deployment_run_id) == StrTarget(<<"/api/drs/", deployment_run_id>>)
DrHostTarget(deployment_run_id, deployment_run_host_id) ==
    StrTarget(<<"/api/drs/", deployment_run_id, "/host/", deployment_run_host_id>>)

RemoteRun(deployment_run_id) ==
    LET i == CHOOSE j \in 1..Len(remote) : remote[j].id = deployment_run_id
    IN  remote[i]

RemoteHost(deployment_run_id, deployment_run_host_id) ==
    LET hosts == RemoteRun(deployment_run_id).hosts
        i == CHOOSE j \in 1..Len(hosts) : hosts[j].id = deployment_run_host_id
    IN  hosts[i]

(* The JSON documents of the three endpoints. *)
DrsPayload ==
    [i \in 1..Len(remote) |->
        [id |-> remote[i].id, name |-> remote[i].name, fapStatus |-> remote[i].fapStatus]]

DrPayload(deployment_run_id) ==
    LET run == RemoteRun(deployment_run_id)
    IN  [name |-> run.name,
         deploymentRunHosts |-> [i \in 1..Len(run.hosts) |-> [id |-> run.hosts[i].id]]]

DrHostPayload(deployment_run_id, deployment_run_host_id) ==
    RemoteHost(deployment_run_id, deployment_run_host_id)

ErrJson == [message |-> <<"error">>]

(* dict.update *)
Update(d, e) ==
    [k \in (DOMAIN d) \cup (DOMAIN e) |-> IF k \in DOMAIN e THEN e[k] ELSE d[k]]

(* What a call returns or raises. *)
Returned(value, type) == [ok |-> TRUE, value |-> value, type |-> type, error |-> NoError]
Raised(err) == [ok |-> FALSE, value |-> <<>>, type |-> "NoneType", error |-> err]

(* json.loads(response.content.decode('utf-8')) of an http_get result: the
   status code is not looked at. *)
JsonLoads(st, payload, type) ==
    IF st.pc = "raised" THEN Raised(st.error)
    ELSE IF st.response.body = "garbage"
    THEN Raised(Error("JSONDecodeError", "Expecting value", <<>>))
    ELSE IF st.response.body = "errjson" THEN Returned(ErrJson, "dict")
    ELSE Returned(payload, type)

(* Session.get_drs *)
get_drs(failures, resp) ==
    JsonLoads(http_get(DrsTarget, failures, resp), DrsPayload, "list")

(* Session.get_dr_hosts *)
get_dr_hosts(deployment_run_id, failures, resp) ==
    LET r == JsonLoads(http_get(DrTarget(deployment_run_id), failures, resp),
                       DrPayload(deployment_run_id), "dict")
    IN  IF ~r.ok THEN r
        ELSE IF "deploymentRunHosts" \notin DOMAIN r.value
        THEN Raised(Error("KeyError", "deploymentRunHosts", <<>>))
        ELSE LET deployment_run == r.value
                 hosts == deployment_run.deploymentRunHosts
             IN  Returned([i \in 1..Len(hosts) |->
                    Update(Update(hosts[i], [drId |-> deployment_run_id]),
                           [drName |-> deployment_run.name])], "list")

(* get_dr_host_details with the run id and the host id mixed up in the stamp. *)
get_dr_host_details_mixed(deployment_run_id, deployment_run_host_id, deployment_run_name, failures, resp) ==
    LET r == JsonLoads(http_get(DrHostTarget(deployment_run_id, deployment_run_host_id),
                                failures, resp),
                       DrHostPayload(deployment_run_id, deployment_run_host_id), "dict")
    IN  IF ~r.ok THEN r
        ELSE Returned(Update(Update(r.value, [drId |-> deployment_run_host_id]),
                             [drName |-> deployment_run_name]), "dict")

(* Session.get_dr_host_details *)
get_dr_host_details(deployment_run_id, deployment_run_host_id, deployment_run_name, failures, resp) ==
    LET r == JsonLoads(http_get(DrHostTarget(deployment_run_id, deployment_run_host_id),
                                failures, resp),
                       DrHostPayload(deployment_run_id, deployment_run_host_id), "dict")
    IN  IF ~r.ok THEN r
        ELSE Returned(Update(Update(r.value, [drId |-> deployment_run_id]),
                             [drName |-> deployment_run_name]), "dict")

----------------------------------------------------------------------------
(* Session.parse_response.  response.content is bytes, a str or None; bytes
   and strings are sequences of units, and the unit "0xFF" never occurs in
   valid UTF-8. *)

(* The statuses parse_response accepts: requests.codes.ok and 202. *)
SuccessCodes == {200, 202}

NoneContent == [type |-> "NoneType", val |-> <<>>]
BytesContent(val) == [type |-> "bytes", val |-> val]
StrContent(val) == [type |-> "str", val |-> val]

Headers == [ContentType |-> "application/json"]
HttpResponse(status_code, content) ==
    [status_code |-> status_code, headers |-> Headers, content |-> content]

(* `if x:` on None, bytes or a str *)
Truthy(x) == x.val # <<>>

(* bytes.decode('utf-8') *)
Utf8Valid(val) == \A i \in 1..Len(val) : val[i] # "0xFF"
Decode(content) == StrContent(content.val)

(* The message of the error: the status and the headers, then the decoded
   content when there is one. *)
StatusMsg(response, decoded_content) ==
    <<response.status_code, response.headers>>
        \o (IF Truthy(decoded_content) THEN <<decoded_content>> ELSE <<>>)

(* The second half of parse_response, once the content is decoded. *)
CheckStatus(response, decoded_content) ==
    IF response.status_code \notin SuccessCodes
    THEN Raised(Error("Cons3rtClientError", "Received HTTP code",
                      StatusMsg(response, decoded_content)))
    ELSE Returned(decoded_content, decoded_content.type)

parse_response(response) ==
    IF Truthy(response.content)
    THEN IF response.content.type = "bytes"
         THEN IF Utf8Valid(response.content.val)
              THEN CheckStatus(response, Decode(response.content))
              ELSE Raised(Error("UnicodeDecodeError", "invalid start byte", <<>>))
         ELSE CheckStatus(response, response.content)
    ELSE CheckStatus(response, NoneContent)

(* A call of parse_response: its argument, then what it returns or raises. *)
CallIdle == [pc |-> "idle", response |-> HttpResponse(0, NoneContent),
             result |-> Returned(NoneContent, "NoneType")]
Called(response) == [pc |-> "called", response |-> response,
                     result |-> Returned(NoneContent, "NoneType")]

----------------------------------------------------------------------------
(* InventoryModule._query: sorted(hosts, key=lambda x: x['id']), a stable
   sort, which raises KeyError on a record without 'id'. *)

RECURSIVE InsertById(_, _)
InsertById(sorted, x) ==
    IF sorted = <<>> THEN <<x>>
    ELSE IF sorted[Len(sorted)].id <= x.id THEN Append(sorted, x)
    ELSE Append(InsertById(SubSeq(sorted, 1, Len(sorted) - 1), x), sorted[Len(sorted)])

(* _query without its sort. *)
Unsorted(hosts) == hosts

RECURSIVE Sorted(_)
Sorted(hosts) ==
    IF hosts = <<>> THEN <<>>
    ELSE InsertById(Sorted(SubSeq(hosts, 1, Len(hosts) - 1)), hosts[Len(hosts)])

SortHosts(hosts) ==
    IF \E i \in 1..Len(hosts) : "id" \notin DOMAIN hosts[i]
    THEN Raised(Error("KeyError", "id", <<>>))
    ELSE Returned(Sorted(hosts), "list")

(* The dict _query returns, and parse's initial results = {}. *)
GroupName == "cons3rt"
Results(hosts) == [g \in {GroupName} |-> hosts]
NoResults == [g \in {} |-> <<>>]

----------------------------------------------------------------------------
(* InventoryModule._populate and _add_hosts on the inventory. *)

EmptyInventory ==
    [groups |-> {"all"}, hosts |-> {}, members |-> {}, children |-> {},
     variables |-> [h \in {} |-> <<>>]]

(* camel_dict_to_snake_dict on the keys of a host record. *)
SnakeKey(key) ==
    CASE key = "systemRole" -> "system_role"
      [] key = "drId" -> "dr_id"
      [] key = "drName" -> "dr_name"
      [] OTHER -> key

CamelDictToSnakeDict(host) ==
    [k \in {SnakeKey(c) : c \in DOMAIN host} |->
        host[CHOOSE c \in DOMAIN host : SnakeKey(c) = k]]

(* _add_hosts without its test of the hostname. *)
NeverFalsy(hostname) == FALSE

(* `not hostname` *)
Falsy(hostname) == hostname = <<>>

(* inventory.add_host(hostname, group) and set_variable for every item. *)
AddHost(inv, hostname, group, hostvars) ==
    [inv EXCEPT
        !.hosts = @ \cup {hostname},
        !.members = @ \cup {<<group, hostname>>},
        !.variables =
            [h \in (DOMAIN @) \cup {hostname} |->
                IF h = hostname
                THEN (IF h \in DOMAIN @ THEN Update(@[h], hostvars) ELSE hostvars)
                ELSE @[h]]]

(* One iteration of the loop of _add_hosts. *)
AddHostsIter(inv, host, group) ==
    IF "systemRole" \notin DOMAIN host
    THEN [inv |-> inv, error |-> Error("KeyError", "systemRole", <<>>)]
    ELSE IF Falsy(host.systemRole)
    THEN [inv |-> inv, error |-> NoError]
    ELSE [inv |-> AddHost(inv, host.systemRole, group, CamelDictToSnakeDict(host)),
          error |-> NoError]

RECURSIVE AddHostsFrom(_, _, _, _)
AddHostsFrom(inv, hosts, i, group) ==
    IF i > Len(hosts) THEN [inv |-> inv, error |-> NoError]
    ELSE LET r == AddHostsIter(inv, hosts[i], group)
         IN  IF r.error # NoError THEN r
             ELSE AddHostsFrom(r.inv, hosts, i + 1, group)

_add_hosts(inv, hosts, group) == AddHostsFrom(inv, hosts, 1, group)

(* _populate: add_group, _add_hosts, add_child('all', group), per group. *)
_populate(inv, groups) ==
    IF GroupName \notin DOMAIN groups
    THEN [inv |-> inv, error |-> NoError]
    ELSE LET withGroup == [inv EXCEPT !.groups = @ \cup {GroupName}]
             r == _add_hosts(withGroup, groups[GroupName], GroupName)
         IN  IF r.error # NoError THEN r
             ELSE [inv |-> [r.inv EXCEPT !.children = @ \cup {<<"all", GroupName>>}],
                   error |-> NoError]

----------------------------------------------------------------------------
(* InventoryModule.parse, with the fetch of _get_hosts spread over the steps
   of its two thread pools. *)

(* InventoryModule.__init__ *)
max_workers == 10

(* Bounds of the model. *)
MaxRuns == 2
MaxHostId == 3

(* What the network does to one request of the fetch: it answers at once
   with any response, or it fails 8 or 9 times in a row before it answers. *)
NetChoices ==
    ({0} \X Responses)
        \cup ({max_retry_attempts - 2, max_retry_attempts - 1} \X {Response(200, "payload")})

CredentialTypes == {"cert_file_path", "cert_password", "cons3rt_token"}

(* _set_credentials without its test of the token. *)
CertificateSufficient(opts) == opts.cert_file_path # "" /\ opts.cert_password # ""

(* _set_credentials: all three must be truthy; "" stands for an option that
   is empty or was not given (None). *)
CredentialsSufficient(opts) ==
    opts.cert_file_path # "" /\ opts.cert_password # "" /\ opts.cons3rt_token # ""

NoCache == [present |-> FALSE, value |-> NoResults]
NoLocals == [cache |-> FALSE, cache_needs_update |-> FALSE]
NoCacheLog == [reads |-> 0, writes |-> 0]

Task(fn, deployment_run_id, deployment_run_host_id, deployment_run_name) ==
    [fn |-> fn, drId |-> deployment_run_id, id |-> deployment_run_host_id,
     drName |-> deployment_run_name, state |-> "queued", result |-> Returned(<<>>, "NoneType")]

TaskTarget(t) ==
    IF t.fn = "get_dr_hosts" THEN DrTarget(t.drId) ELSE DrHostTarget(t.drId, t.id)

(* What the task's function returns or raises. *)
TaskRun(t, failures, resp) ==
    IF t.fn = "get_dr_hosts"
    THEN get_dr_hosts(t.drId, failures, resp)
    ELSE get_dr_host_details(t.drId, t.id, t.drName, failures, resp)

(* A response came back from the request and its status is not a success. *)
BadStatus(target, failures, resp) ==
    LET st == http_get(target, failures, resp)
    IN  st.pc = "returned" /\ st.response.status_code \notin SuccessCodes

(* dr_hosts = r.result() in place of dr_hosts.extend(r.result()). *)
LastOnly(lists) == IF lists = <<>> THEN <<>> ELSE lists[Len(lists)]

RECURSIVE Flatten(_)
Flatten(lists) ==
    IF lists = <<>> THEN <<>> ELSE Head(lists) \o Flatten(Tail(lists))

(* The pool is left as soon as one future is done. *)
FirstCompleted == \E i \in 1..Len(tasks) : tasks[i].state = "done"

(* The pool is left as soon as every future is done or one has failed. *)
FirstException ==
    \/ \A i \in 1..Len(tasks) : tasks[i].state = "done"
    \/ \E i \in 1..Len(tasks) : ~tasks[i].result.ok

(* The exit of `with ThreadPoolExecutor(...) as executor`: shutdown(wait=True)
   returns when every submitted work item has run. *)
AllDone == \A i \in 1..Len(tasks) : tasks[i].state = "done"
Running == {i \in 1..Len(tasks) : tasks[i].state = "running"}

(* for r in results: r.result() raises the exception of the first future,
   in submission order, that failed. *)
FirstFailure ==
    LET i == CHOOSE j \in 1..Len(tasks) :
                /\ ~tasks[j].result.ok
                /\ \A k \in 1..(j - 1) : tasks[k].result.ok
    IN  tasks[i].result.error

(* Only the first future's result() is asked for its exception. *)
FirstFutureFailure == Len(tasks) > 0 /\ ~tasks[1].result.ok

(* The futures' exceptions are never asked for. *)
FailuresIgnored == FALSE

AnyFailure == \E i \in 1..Len(tasks) : ~tasks[i].result.ok

(* The exception leaves parse: nothing is populated, nothing is cached. *)
Fail(err) ==
    /\ pc' = "failed"
    /\ error' = err
    /\ UNCHANGED <<cache, cacheLog, sink, delivered>>

(* `if cache_needs_update or (not cache and self.get_option('cache'))` *)
CacheNeedsWrite(loc) == loc.cache_needs_update \/ (~loc.cache /\ options.cache)

(* The end of parse: _populate(results), then the cache update.  `log` is
   the cache log of the parse so far. *)
Finish(inv, results, loc, log) ==
    LET r == _populate(inv, results)
    IN  /\ delivered' = results
        /\ sink' = r.inv
        /\ IF r.error # NoError
           THEN /\ pc' = "failed"
                /\ error' = r.error
                /\ cache' = cache
                /\ cacheLog' = log
           ELSE /\ pc' = "done"
                /\ error' = NoError
                /\ IF CacheNeedsWrite(loc)
                   THEN /\ cache' = [present |-> TRUE, value |-> results]
                        /\ cacheLog' = [log EXCEPT !.writes = @ + 1]
                   ELSE /\ cache' = cache
                        /\ cacheLog' = log

(* A lookup that always misses. *)
CacheMiss(c) == FALSE

(* try: results = self._cache[cache_key], under `if cache`. *)
CacheHit(c) == c /\ cache.present

(* A lookup by `cache_key in self._cache` followed by self._cache[cache_key]. *)
LookupTwice(c) == IF c THEN 2 ELSE 0

(* The number of reads of self._cache[cache_key]: one under `if cache`. *)
CacheLookups(c) == IF c THEN 1 ELSE 0

(* parse up to the decision to query: credentials, the cache directive and
   the cache lookup; on a cache hit, parse to its end. *)
ParseBegin(cache_arg) ==
    /\ pc \in {"idle", "done", "failed"}
    /\ issued' = {}
    /\ badStatus' = FALSE
    /\ todo' = <<>>
    /\ tasks' = <<>>
    /\ UNCHANGED <<get, call, remote, options>>
    /\ IF ~CredentialsSufficient(options)
       THEN /\ pc' = "failed"
            /\ error' = Error("AnsibleError", "Insufficient credentials found", <<>>)
            /\ sink' = EmptyInventory
            /\ delivered' = NoResults
            /\ locals' = NoLocals
            /\ cache' = cache
            /\ cacheLog' = NoCacheLog
       ELSE LET c == IF cache_arg THEN options.cache ELSE FALSE
                loc == [cache |-> c, cache_needs_update |-> c /\ ~CacheHit(c)]
                log == [NoCacheLog EXCEPT !.reads = CacheLookups(c)]
            IN  /\ locals' = loc
                /\ IF CacheHit(c)
                   THEN Finish(EmptyInventory, cache.value, loc, log)
                   ELSE /\ pc' = "query"
                        /\ error' = NoError
                        /\ sink' = EmptyInventory
                        /\ delivered' = NoResults
                        /\ cache' = cache
                        /\ cacheLog' = log

(* No filter on fapStatus. *)
AnyStatus(dr) == TRUE

(* dr['fapStatus'] == "RESERVED" *)
Reserved(dr) == dr.fapStatus = RESERVED

(* _get_hosts: client.get_drs(), then the first pool is created; the calls
   its loop will submit, one per RESERVED run, are those of todo. *)
GetDrs(failures, resp) ==
    /\ pc = "query"
    /\ issued' = issued \cup {DrsTarget}
    /\ badStatus' = (badStatus \/ BadStatus(DrsTarget, failures, resp))
    /\ UNCHANGED <<get, call, remote, options, locals>>
    /\ LET r == get_drs(failures, resp)
       IN  IF ~r.ok
           THEN Fail(r.error) /\ tasks' = tasks /\ todo' = todo
           ELSE IF r.type = "dict"
           THEN Fail(Error("TypeError", "string indices must be integers", <<>>))
                /\ tasks' = tasks
                /\ todo' = todo
           ELSE LET drs == r.value
                    reserved == SelectSeq(drs, Reserved)
                IN  /\ todo' = [i \in 1..Len(reserved) |->
                                    Task("get_dr_hosts", reserved[i].id, 0, <<>>)]
                    /\ tasks' = <<>>
                    /\ pc' = "stage1"
                    /\ UNCHANGED <<cache, cacheLog, sink, delivered, error>>

(* One iteration of a submitting loop: results.append(executor.submit(...)).
   The pool's threads run the work items submitted so far meanwhile. *)
Submit ==
    /\ pc \in {"stage1", "stage2"}
    /\ todo # <<>>
    /\ tasks' = Append(tasks, Head(todo))
    /\ todo' = Tail(todo)
    /\ UNCHANGED <<get, call, remote, options, cache, cacheLog, pc, locals, sink,
                   error, issued, badStatus, delivered>>

(* A pool that adds a thread for every work item submitted. *)
ThreadPerTask == TRUE

(* ThreadPoolExecutor(max_workers=self.max_workers): a work item is run by
   one of at most max_workers threads, each running one item at a time. *)
WorkerFree == Cardinality(Running) < max_workers

(* A worker thread takes the next work item of the pool's queue. *)
TaskStart(i) ==
    /\ pc \in {"stage1", "stage2"}
    /\ i \in 1..Len(tasks)
    /\ tasks[i].state = "queued"
    /\ \A j \in 1..(i - 1) : tasks[j].state # "queued"
    /\ WorkerFree
    /\ tasks' = [tasks EXCEPT ![i].state = "running"]
    /\ issued' = issued \cup {TaskTarget(tasks[i])}
    /\ UNCHANGED <<get, call, remote, options, cache, cacheLog, pc, locals, todo, sink,
                   error, badStatus, delivered>>

(* The work item runs to its return or its exception. *)
TaskFinish(i, failures, resp) ==
    /\ pc \in {"stage1", "stage2"}
    /\ i \in 1..Len(tasks)
    /\ tasks[i].state = "running"
    /\ tasks' = [tasks EXCEPT ![i].state = "done",
                              ![i].result = TaskRun(tasks[i], failures, resp)]
    /\ badStatus' = (badStatus \/ BadStatus(TaskTarget(tasks[i]), failures, resp))
    /\ UNCHANGED <<get, call, remote, options, cache, cacheLog, pc, locals, todo, sink,
                   error, issued, delivered>>

(* The first loop has ended and the first pool has shut down: the results
   are merged into dr_hosts and the second pool is created; the calls its
   loop will submit, one per host, are those of todo. *)
Stage1Join ==
    /\ pc = "stage1"
    /\ todo = <<>>
    /\ AllDone
    /\ UNCHANGED <<get, call, remote, options, locals, issued, badStatus>>
    /\ IF AnyFailure
       THEN Fail(FirstFailure) /\ tasks' = tasks /\ todo' = todo
       ELSE LET dr_hosts == Flatten([i \in 1..Len(tasks) |-> tasks[i].result.value])
            IN  /\ todo' = [i \in 1..Len(dr_hosts) |->
                                Task("get_dr_host_details", dr_hosts[i].drId,
                                     dr_hosts[i].id, dr_hosts[i].drName)]
                /\ tasks' = <<>>
                /\ pc' = "stage2"
                /\ UNCHANGED <<cache, cacheLog, sink, delivered, error>>

(* The second loop has ended and the second pool has shut down: the results
   are merged into all_dr_hosts, _query sorts them and parse populates the
   inventory and the cache. *)
Stage2Join ==
    /\ pc = "stage2"
    /\ todo = <<>>
    /\ AllDone
    /\ UNCHANGED <<get, call, remote, options, locals, issued, badStatus, todo, tasks>>
    /\ IF AnyFailure
       THEN Fail(FirstFailure)
       ELSE LET all_dr_hosts == [i \in 1..Len(tasks) |-> tasks[i].result.value]
                hosts == SortHosts(all_dr_hosts)
            IN  IF ~hosts.ok
                THEN Fail(hosts.error)
                ELSE Finish(sink, Results(hosts.value), locals, cacheLog)

----------------------------------------------------------------------------
(* The states parse can start from. *)

(* The hosts of the remote, each in one run: the host ids 1..n in one of a
   few orders, cut into the runs' host lists. *)
Ascending(n) == [i \in 1..n |-> i]
Descending(n) == [i \in 1..n |-> n + 1 - i]
Rotated(n) == [i \in 1..n |-> IF i = n THEN 1 ELSE i + 1]
HostIdSeqs(n) == {Ascending(n), Descending(n), Rotated(n)}

RECURSIVE Cuts(_, _)
Cuts(s, n) ==
    IF n = 0 THEN (IF s = <<>> THEN {<<>>} ELSE {})
    ELSE UNION {{<<SubSeq(s, 1, k)>> \o rest : rest \in Cuts(SubSeq(s, k + 1, Len(s)), n - 1)} :
                    k \in 0..Len(s)}

Statuses == {RESERVED, <<"RELEASED">>}

(* The systemRole of host 2 is a name, empty or missing; the others are named. *)
BlankKinds == {"named", "empty", "absent"}

HostRecord(h, blank) ==
    IF h # 2 \/ blank = "named" THEN [id |-> h, systemRole |-> HostName(h)]
    ELSE IF blank = "empty" THEN [id |-> h, systemRole |-> <<>>]
    ELSE [id |-> h]

Remote(hostIds, fapStatus, blank) ==
    [i \in 1..Len(hostIds) |->
        [id |-> RunId(i), name |-> RunName(i), fapStatus |-> fapStatus[i],
         hosts |-> [k \in 1..Len(hostIds[i]) |-> HostRecord(hostIds[i][k], blank)]]]

Remotes(maxRuns, orders, blanks) ==
    UNION {{Remote(hostIds, fapStatus, blank) :
                hostIds \in UNION {Cuts(s, n) : s \in orders},
                fapStatus \in [1..n -> Statuses],
                blank \in blanks} :
            n \in 0..maxRuns}

(* The remotes of the fetch specification, and the smaller ones of the
   specification of parse, which also varies the options. *)
RemoteStates == Remotes(MaxRuns, HostIdSeqs(MaxHostId), {"named"})
SmallRemoteStates == Remotes(MaxRuns, {Descending(MaxHostId - 1)}, BlankKinds)

DefaultOptions ==
    [cache |-> FALSE, cert_file_path |-> "/id.p12", cert_password |-> "secret",
     cons3rt_token |-> "token"]

OptionSets ==
    {o \in [cache : BOOLEAN, cert_file_path : {"", "/id.p12"},
            cert_password : {"", "secret"}, cons3rt_token : {"", "token"}] :
        Cardinality({c \in CredentialTypes : o[c] = ""}) <= 1}

ParseIdle ==
    /\ cache = NoCache
    /\ cacheLog = NoCacheLog
    /\ pc = "idle"
    /\ locals = NoLocals
    /\ todo = <<>>
    /\ tasks = <<>>
    /\ sink = EmptyInventory
    /\ error = NoError
    /\ issued = {}
    /\ badStatus = FALSE
    /\ delivered = NoResults

Init ==
    /\ get = HttpGetIdle
    /\ call = CallIdle
    /\ remote \in SmallRemoteStates
    /\ options \in OptionSets
    /\ ParseIdle

InitFetch ==
    /\ get = HttpGetIdle
    /\ call = CallIdle
    /\ remote \in RemoteStates
    /\ options = DefaultOptions
    /\ ParseIdle

Next ==
    \/ \E cache_arg \in BOOLEAN : ParseBegin(cache_arg)
    \/ \E net \in NetChoices : GetDrs(net[1], net[2])
    \/ Submit
    \/ \E i \in 1..MaxHostId : TaskStart(i)
    \/ \E i \in 1..MaxHostId, net \in NetChoices : TaskFinish(i, net[1], net[2])
    \/ Stage1Join
    \/ Stage2Join

Spec == Init /\ [][Next]_vars

SpecFetch == InitFetch /\ [][Next]_vars

----------------------------------------------------------------------------
(* Specification of the fetch with more work items than the pool has
   threads: one reserved run with MaxTasks hosts, or MaxTasks reserved runs
   with one host each, on a network that answers at once and may give the
   first work item of a stage a body that is not JSON. *)

MaxTasks == 11

PoolRemotes ==
    {Remote(<<Ascending(MaxTasks)>>, <<RESERVED>>, "named"),
     Remote([i \in 1..MaxTasks |-> <<i>>], [i \in 1..MaxTasks |-> RESERVED], "named")}

InitPool ==
    /\ get = HttpGetIdle
    /\ call = CallIdle
    /\ remote \in PoolRemotes
    /\ options = DefaultOptions
    /\ ParseIdle

NextPool ==
    \/ ParseBegin(TRUE)
    \/ GetDrs(0, Response(200, "payload"))
    \/ Submit
    \/ \E i \in 1..MaxTasks : TaskStart(i)
    \/ \E i \in 1..MaxTasks : TaskFinish(i, 0, Response(200, "payload"))
    \/ TaskFinish(1, 0, Response(200, "garbage"))
    \/ Stage1Join
    \/ Stage2Join

(* A running work item ends: weak fairness of TaskFinish, with the
   enabledness of the action written as its guard, a work item is running. *)
TaskFinishFair ==
    \/ []<>(~(pc \in {"stage1", "stage2"} /\ Running # {}))
    \/ []<><<\E i \in 1..MaxTasks : TaskFinish(i, 0, Response(200, "payload"))>>_vars

(* The submitting loop goes on and the pool's threads keep taking and
   running work items. *)
SpecPool ==
    /\ InitPool
    /\ [][NextPool]_vars
    /\ WF_vars(Submit)
    /\ WF_vars(\E i \in 1..MaxTasks : TaskStart(i))
    /\ TaskFinishFair

----------------------------------------------------------------------------
(* Specification of one http_get call, one loop iteration per step. *)

Targets == {NoneTarget, IntTarget, EmptyTarget, StrTarget(<<"/api/drs">>)}

HttpGetCall(target) ==
    /\ get.pc = "idle"
    /\ get' = HttpGetEnter(target)
    /\ UNCHANGED <<call, parseVars>>

HttpGetAttempt(outcome) ==
    /\ get.pc = "loop"
    /\ ~AttemptsExceeded(get)
    /\ get' = HttpGetIter(get, outcome)
    /\ UNCHANGED <<call, parseVars>>

HttpGetExhausted ==
    /\ get.pc = "loop"
    /\ AttemptsExceeded(get)
    /\ get' = HttpGetIter(get, NoResponse)
    /\ UNCHANGED <<call, parseVars>>

InitGet ==
    /\ get = HttpGetIdle
    /\ call = CallIdle
    /\ remote = <<>>
    /\ options = DefaultOptions
    /\ ParseIdle

NextGet ==
    \/ \E target \in Targets : HttpGetCall(target)
    \/ \E outcome \in Outcomes : HttpGetAttempt(outcome)
    \/ HttpGetExhausted

SpecGet == InitGet /\ [][NextGet]_vars

(* Every s.get(url) returns or raises and every time.sleep ends, so a call
   that is in its loop takes its next iteration. *)
SpecGetFair ==
    /\ InitGet
    /\ [][NextGet]_vars
    /\ WF_vars(\E outcome \in Outcomes : HttpGetAttempt(outcome))
    /\ WF_vars(HttpGetExhausted)

----------------------------------------------------------------------------
(* Specification of parse_response: one call on each response of a family. *)

ParseStatusCodes == {200, 201, 202, 204, 404, 500}
Units == {"{", "x", "0xFF"}
MaxContentLen == 2

UnitSeqs(units) == UNION {[1..n -> units] : n \in 0..MaxContentLen}
Contents ==
    {NoneContent}
        \cup {BytesContent(v) : v \in UnitSeqs(Units)}
        \cup {StrContent(v) : v \in UnitSeqs(Units \ {"0xFF"})}
HttpResponses == {HttpResponse(c, b) : c \in ParseStatusCodes, b \in Contents}

ParseResponse ==
    /\ call.pc = "called"
    /\ call' = [call EXCEPT !.pc = IF parse_response(call.response).ok
                                    THEN "returned" ELSE "raised",
                            !.result = parse_response(call.response)]
    /\ UNCHANGED <<get, parseVars>>

InitResponse ==
    /\ get = HttpGetIdle
    /\ call \in {Called(r) : r \in HttpResponses}
    /\ remote = <<>>
    /\ options = DefaultOptions
    /\ ParseIdle

NextResponse == ParseResponse

SpecResponse == InitResponse /\ [][NextResponse]_vars

----------------------------------------------------------------------------
(* Properties. *)

(* The host list the last parse got from _query, and what the remote holds. *)
HostList == delivered[GroupName]
FetchSucceeded == GroupName \in DOMAIN delivered /\ issued # {}

ReservedRuns == {i \in 1..Len(remote) : remote[i].fapStatus = RESERVED}
ReservedHosts ==
    {p \in (1..Len(remote)) \X (1..MaxHostId) :
        p[1] \in ReservedRuns /\ p[2] <= Len(remote[p[1]].hosts)}
RunOf(p) == remote[p[1]]
HostOf(p) == remote[p[1]].hosts[p[2]]

(* The detail records of the reserved runs' hosts, and their list in
   ascending order of host id, as functions of the remote alone. *)
ExpectedRecords ==
    {Update(HostOf(p), [drId |-> RunOf(p).id, drName |-> RunOf(p).name]) :
        p \in ReservedHosts}
ExpectedHostList ==
    [j \in 1..Cardinality(ExpectedRecords) |->
        CHOOSE r \in ExpectedRecords :
            Cardinality({q \in ExpectedRecords : q.id < r.id}) = j - 1]

FailedErrors ==
    {tasks[i].result.error : i \in {j \in 1..Len(tasks) : ~tasks[j].result.ok}}

(* C1: when every GET attempt fails, http_get makes 10 attempts and raises
   an error carrying the failure message of each of the 10 attempts. *)
C1_RetryExhaustion ==
    (get.pc = "raised" /\ get.error.text = "Max attempts exceeded") =>
        /\ get.gets = max_retry_attempts
        /\ \A n \in 1..max_retry_attempts :
                \E k \in 1..Len(get.error.tally) : get.error.tally[k].attempt = n

(* C2: for every N < 10, after N failed attempts http_get makes attempt
   N+1, and if that attempt succeeds it returns its response, having slept
   N retry delays and made N+1 attempts. *)
C2_RetrySuccess ==
    [][(get.pc = "loop" /\ Len(get.log) < max_retry_attempts) =>
            /\ get'.gets = get.gets + 1
            /\ get'.log[Len(get'.log)].kind = "response" =>
                    /\ get'.pc = "returned"
                    /\ get'.response = get'.log[Len(get'.log)]
                    /\ get'.gets = Len(get.log) + 1
                    /\ get'.slept = Len(get.log) * retry_time_sec]_vars

(* C3: after a successful fetch the record of every host H of every
   reserved run R carries drId = R.id and drName = R.name. *)
C3_ParentRunStamp ==
    FetchSucceeded =>
        \A p \in ReservedHosts : \A j \in 1..Len(HostList) :
            HostList[j].id = HostOf(p).id =>
                HostList[j].drId = RunOf(p).id /\ HostList[j].drName = RunOf(p).name

C3_Witness ==
    /\ FetchSucceeded
    /\ Len(HostList) = MaxHostId
    /\ Cardinality(ReservedRuns) = MaxRuns
    /\ \A i \in ReservedRuns : Len(remote[i].hosts) > 0

(* C4: after a successful fetch the host list holds exactly one record per
   (reserved run, host) pair, and as many records as the reserved runs have
   hosts. *)
C4_OneRecordPerHost ==
    FetchSucceeded =>
        /\ Len(HostList) = Cardinality(ReservedHosts)
        /\ \A p \in ReservedHosts :
                Cardinality({j \in 1..Len(HostList) :
                                /\ HostList[j].drId = RunOf(p).id
                                /\ HostList[j].id = HostOf(p).id}) = 1

C4_Witness ==
    /\ FetchSucceeded
    /\ Len(HostList) = MaxHostId
    /\ \E i \in ReservedRuns : Len(remote[i].hosts) >= 2
    /\ \E i \in ReservedRuns : Len(remote[i].hosts) = 1

(* C5: no request is issued and no work item is submitted, or waits to be
   submitted, for a run that is not RESERVED, and no record of the result has
   its id as drId. *)
C5_NonReservedIgnored ==
    \A i \in (1..Len(remote)) \ ReservedRuns :
        /\ DrTarget(remote[i].id) \notin issued
        /\ \A h \in 1..MaxHostId : DrHostTarget(remote[i].id, h) \notin issued
        /\ \A t \in 1..Len(tasks) : tasks[t].drId # remote[i].id
        /\ \A t \in 1..Len(todo) : todo[t].drId # remote[i].id
        /\ GroupName \in DOMAIN delivered =>
                \A j \in 1..Len(HostList) : HostList[j].drId # remote[i].id

C5_Witness ==
    /\ FetchSucceeded
    /\ Len(HostList) >= 1
    /\ \E i \in (1..Len(remote)) \ ReservedRuns : Len(remote[i].hosts) >= 1

(* C6: the host list of a successful fetch is in ascending order of host id
   and is the list the remote determines, whatever the order in which the
   work items completed. *)
C6_SortedDeterministic ==
    FetchSucceeded =>
        /\ \A j, k \in 1..Len(HostList) : j < k => HostList[j].id <= HostList[k].id
        /\ HostList = ExpectedHostList

C6_Witness ==
    /\ FetchSucceeded
    /\ Len(HostList) = MaxHostId
    /\ \E i \in ReservedRuns : \E k \in 1..Len(remote[i].hosts) :
            \E i2 \in ReservedRuns : \E k2 \in 1..Len(remote[i2].hosts) :
                /\ (i < i2 \/ (i = i2 /\ k < k2))
                /\ remote[i].hosts[k].id > remote[i2].hosts[k2].id

(* C7: once a work item of either stage has failed, parse can only fail,
   with the error of a failed work item, leaving the inventory empty and the
   cache as it was, and it does fail in the step taken once the stage's work
   items are all submitted and done; what is delivered or cached is always a
   complete host set. *)
C7_AtomicFetch ==
    [][/\ (pc \in {"stage1", "stage2"} /\ AnyFailure) =>
            /\ pc' \in {pc, "failed"}
            /\ (todo = <<>> /\ AllDone) => pc' = "failed"
            /\ pc' = "failed" => (todo = <<>> /\ AllDone)
            /\ pc' = "failed" => error' \in FailedErrors
            /\ sink' = EmptyInventory
            /\ delivered' = NoResults
            /\ cache' = cache
       /\ cache'.present =>
            Len(cache'.value[GroupName]) = Cardinality(ReservedHosts)
       /\ GroupName \in DOMAIN delivered' =>
            Len(delivered'[GroupName]) = Cardinality(ReservedHosts)]_vars

C7_Witness ==
    /\ pc = "failed"
    /\ error \in FailedErrors
    /\ \E i \in 1..Len(tasks) : tasks[i].fn = "get_dr_host_details" /\ ~tasks[i].result.ok
    /\ \E i \in 1..Len(tasks) : tasks[i].state = "done" /\ tasks[i].result.ok
    /\ cache.present
    /\ sink = EmptyInventory

(* C8: if a request of the fetch got a response whose status is neither 200
   nor 202, parse does not complete and nothing is delivered to the
   inventory (the fetch fails). *)
C8_NonSuccessStatusFails ==
    badStatus =>
        /\ pc # "done"
        /\ delivered = NoResults
        /\ sink = EmptyInventory

(* C9: a parse with caching enabled that finds a snapshot in the cache ends
   having delivered that snapshot, with no request issued and the cache as
   it was; the snapshot is what the previous parse delivered. *)
C9_CacheHit ==
    [][(/\ pc \in {"idle", "done", "failed"}
        /\ CredentialsSufficient(options)
        /\ cache.present
        /\ locals'.cache) =>
            /\ pc' = "done"
            /\ delivered' = cache.value
            /\ issued' = {}
            /\ cache' = cache
            /\ GroupName \in DOMAIN delivered => delivered' = delivered]_vars

C9_Witness ==
    /\ pc = "done"
    /\ locals.cache
    /\ ~locals.cache_needs_update
    /\ issued = {}
    /\ cache.present
    /\ delivered = cache.value
    /\ Len(HostList) >= 2
    /\ sink.hosts # {}

(* C10: no host is registered and no variable is set in the inventory for a
   record whose systemRole is empty or missing: every host of the inventory
   is named by the non-empty systemRole of a delivered record and carries
   that record's variables. *)
C10_BlankRoleSkipped ==
    \A h \in sink.hosts \cup (DOMAIN sink.variables) \cup {m[2] : m \in sink.members} :
        /\ h # <<>>
        /\ h \in sink.hosts /\ h \in DOMAIN sink.variables
        /\ \E j \in 1..Len(HostList) :
                /\ "systemRole" \in DOMAIN HostList[j]
                /\ HostList[j].systemRole = h
                /\ sink.variables[h] = CamelDictToSnakeDict(HostList[j])

C10_Witness ==
    /\ pc = "done"
    /\ sink.hosts # {}
    /\ \E j \in 1..Len(HostList) :
            "systemRole" \in DOMAIN HostList[j] /\ HostList[j].systemRole = <<>>

(* C11: an http_get call whose target is empty or not a string makes no GET
   attempt and waits no retry delay, and it ends by raising the
   invalid-argument error. *)
C11_InvalidTarget ==
    (get.pc # "idle" /\ (get.target.type # "str" \/ get.target.val = <<>>)) =>
        /\ get.gets = 0
        /\ get.slept = 0
        /\ get.pc = "raised"
        /\ get.error = Error("Cons3rtClientError", "Invalid target arg provided", <<>>)

(* C12: parse_response raises Cons3rtClientError exactly when the status is
   neither 200 nor 202, and the message then carries the status and, when
   there is a body, the decoded body; otherwise it returns the decoded body,
   or None when the body is empty. *)
C12_ParseResponse ==
    call.pc \in {"returned", "raised"} =>
        LET response == call.response
            body == response.content
        IN  IF response.status_code \notin SuccessCodes
            THEN /\ call.pc = "raised"
                 /\ call.result.error.type = "Cons3rtClientError"
                 /\ call.result.error.tally[1] = response.status_code
                 /\ body.val # <<>> =>
                        call.result.error.tally[Len(call.result.error.tally)]
                            = StrContent(body.val)
            ELSE /\ call.pc = "returned"
                 /\ call.result.value
                        = IF body.val = <<>> THEN NoneContent ELSE StrContent(body.val)

(* C13: with one of the three credentials missing or empty, parse can only
   fail with the configuration error: no request is issued, no work item
   exists, the cache is neither read nor written, the inventory stays empty
   and nothing is delivered. *)
C13_CredentialsRequired ==
    (\E c \in CredentialTypes : options[c] = "") =>
        /\ pc \in {"idle", "failed"}
        /\ pc = "failed" =>
                error = Error("AnsibleError", "Insufficient credentials found", <<>>)
        /\ issued = {}
        /\ todo = <<>>
        /\ tasks = <<>>
        /\ get = HttpGetIdle
        /\ cacheLog = NoCacheLog
        /\ cache = NoCache
        /\ sink = EmptyInventory
        /\ delivered = NoResults

C13_Witness ==
    /\ pc = "failed"
    /\ error.type = "AnsibleError"
    /\ options.cons3rt_token = ""
    /\ options.cache
    /\ Len(remote) > 0

(* C14: an http_get call never makes more than 10 GET attempts nor waits
   more than 10 retry delays, it raises nothing but Cons3rtClientError, and
   once in its loop it ends, by returning a response or by raising, whatever
   the attempts' outcomes are. *)
C14_HttpGetTerminates ==
    /\ [](/\ get.gets <= max_retry_attempts
          /\ get.slept <= max_retry_attempts * retry_time_sec
          /\ get.pc = "raised" => get.error.type = "Cons3rtClientError"
          /\ get.pc = "returned" => get.response.kind = "response")
    /\ (get.pc = "loop" ~> get.pc \in {"returned", "raised"})

C14_Witness ==
    /\ get.pc = "raised"
    /\ get.error.text = "Max attempts exceeded"
    /\ get.gets = max_retry_attempts - 1
    /\ get.slept = (max_retry_attempts - 1) * retry_time_sec

(* The get_dr_host_details requests issued so far in this parse. *)
HostRequests ==
    {t \in issued : \E r \in 1..MaxRuns, h \in 1..MaxHostId : t = DrHostTarget(RunId(r), h)}

(* The work items of the second stage, submitted or still to be submitted. *)
Stage2Items(submitted, unsubmitted) ==
    {i \in 1..Len(submitted) : submitted[i].fn = "get_dr_host_details"}
        \cup {i \in 1..Len(unsubmitted) : unsubmitted[i].fn = "get_dr_host_details"}

(* C15: a get_dr_host_details work item exists, and its request is issued,
   only after every get_dr_hosts work item of the fetch has completed: the
   step to the second stage is taken from a state where all of them are
   submitted and done, and before it there is no stage-2 work item and no
   stage-2 request. *)
C15_FullJoinBarrier ==
    [][/\ (pc = "stage1" /\ (pc' = "stage2" \/ Stage2Items(tasks', todo') # {})) =>
            /\ todo = <<>>
            /\ \A i \in 1..Len(tasks) : tasks[i].state = "done"
       /\ pc' \in {"query", "stage1"} =>
            /\ Stage2Items(tasks', todo') = {}
            /\ \A t \in issued' : t \in {DrsTarget} \cup {DrTarget(RunId(r)) : r \in 1..MaxRuns}]_vars

C15_Witness ==
    /\ pc = "stage2"
    /\ Cardinality(ReservedRuns) = MaxRuns
    /\ Len(tasks) >= 2
    /\ todo # <<>>
    /\ \E i \in 1..Len(tasks) : tasks[i].state = "running"
    /\ HostRequests # {}

(* The states a work item can go to in one step: none is cancelled. *)
TaskSteps == {<<"queued", "queued">>, <<"queued", "running">>, <<"running", "running">>,
              <<"running", "done">>, <<"done", "done">>}

(* A step of a stage cancels nothing, submitted or still to be submitted,
   and a step out of a stage by failure is taken when every work item is
   submitted and done. *)
DrainStep ==
    pc \in {"stage1", "stage2"} =>
        /\ pc' = pc =>
            /\ Len(tasks') >= Len(tasks)
            /\ tasks' \o todo' = [i \in 1..(Len(tasks) + Len(todo)) |->
                                    IF i <= Len(tasks)
                                    THEN tasks'[i]
                                    ELSE todo[i - Len(tasks)]]
            /\ \A i \in 1..Len(tasks) :
                    /\ <<tasks[i].state, tasks'[i].state>> \in TaskSteps
                    /\ tasks[i].state = "done" => tasks'[i] = tasks[i]
        /\ pc' = "failed" =>
            /\ todo = <<>>
            /\ \A i \in 1..Len(tasks) : tasks[i].state = "done"
            /\ tasks' = tasks

(* A work item that is not done can take its next step. *)
CanProceed(i) ==
    /\ (tasks[i].state = "queued" /\ \A j \in 1..(i - 1) : tasks[j].state # "queued")
            => ENABLED TaskStart(i)
    /\ tasks[i].state = "running" => ENABLED TaskFinish(i, 0, Response(200, "payload"))

(* C16: a submitted work item is never cancelled: while a stage is under
   way each work item only moves from queued to running to done, keeping
   its result once done, the work items not yet submitted stay to be
   submitted, and a work item that is not done can take its next step even
   when a sibling has failed; the error leaves the fetch only from a state
   where every work item of the stage is submitted and done. *)
C16_PoolDrains ==
    /\ []((pc \in {"stage1", "stage2"} /\ AnyFailure) =>
                \A i \in 1..Len(tasks) : CanProceed(i))
    /\ [][DrainStep]_vars

C16_Witness ==
    /\ pc = "failed"
    /\ Len(tasks) >= 2
    /\ ~tasks[1].result.ok
    /\ \A i \in 2..Len(tasks) : tasks[i].state = "done" /\ tasks[i].result.ok

(* C17: at most max_workers (10) work items are running at any time, in
   either stage, with more work items than that submitted; whenever work
   items wait in the queue of a stage, eventually all work items of the
   stage are submitted and done. *)
C17_BoundedConcurrency ==
    /\ [](Cardinality({i \in 1..Len(tasks) : tasks[i].state = "running"}) <= max_workers)
    /\ (pc \in {"stage1", "stage2"} /\ \E i \in 1..Len(tasks) : tasks[i].state = "queued")
            ~> (todo = <<>> /\ \A i \in 1..Len(tasks) : tasks[i].state = "done")

C17_Witness ==
    /\ pc = "stage2"
    /\ Len(remote) = MaxTasks
    /\ Len(tasks) > max_workers
    /\ Cardinality({i \in 1..Len(tasks) : tasks[i].state = "running"}) = max_workers
    /\ \E i \in 1..Len(tasks) : tasks[i].state = "queued"

(* The reads and writes of the cache that a step makes: a step from a state
   where no parse is under way begins a parse, whose log starts empty. *)
LogBefore == IF pc \in {"idle", "done", "failed"} THEN NoCacheLog ELSE cacheLog
ReadsInStep == cacheLog'.reads - LogBefore.reads
WritesInStep == cacheLog'.writes - LogBefore.writes

CacheAccessStep ==
    /\ cacheLog'.reads <= 1
    /\ cacheLog'.writes <= 1
    /\ ReadsInStep > 0 =>
            /\ pc \in {"idle", "done", "failed"}
            /\ issued' = {}
            /\ todo' = <<>>
            /\ tasks' = <<>>
    /\ WritesInStep > 0 =>
            /\ pc' = "done"
            /\ issued' # {}
            /\ todo' = <<>>
            /\ \A i \in 1..Len(tasks') : tasks'[i].state = "done"
    /\ cache' # cache => WritesInStep > 0
    /\ pc' \in {"query", "stage1", "stage2"} =>
            /\ cache' = cache
            /\ WritesInStep = 0
            /\ pc \in {"query", "stage1", "stage2"} => cacheLog' = cacheLog

(* C18: in one parse the cache is read at most once, in the step that begins
   the parse, before any request is issued or work item submitted, and
   written at most once, in the step that ends the parse after every work
   item is done; while the fetch is under way the cache is neither read nor
   written. *)
C18_CacheAccessOrder == [][CacheAccessStep]_vars

C18_Witness ==
    /\ pc = "done"
    /\ cacheLog = [reads |-> 1, writes |-> 1]
    /\ cache.present
    /\ issued # {}
    /\ Len(tasks) >= 2

(* The last step of a parse, the fetch having succeeded in it or not. *)
EndStep == pc' \in {"done", "failed"}
FetchedInStep == GroupName \in DOMAIN delivered' /\ issued' # {}

(* What a parse does to the cache when it writes it exactly if `due`. *)
CacheWrittenIff(due) ==
    IF EndStep
    THEN /\ WritesInStep > 0 <=> due
         /\ WritesInStep > 0 => cache' = [present |-> TRUE, value |-> delivered']
         /\ WritesInStep = 0 => cache' = cache
         /\ (issued' = {} \/ ~options.cache) => cache' = cache
    ELSE cache' = cache

(* C19: a parse writes the cache entry exactly when the fetch succeeded in
   it and the cache option is enabled, the value written being the snapshot
   delivered; on a cache hit or with the option disabled the cache is left
   as it was. *)
C19_CacheWrittenIffFetched ==
    [][CacheWrittenIff(FetchedInStep /\ options.cache)]_vars

(* A get_dr_hosts work item of the fetch under way has failed. *)
Stage1Failed ==
    \E i \in 1..Len(tasks) : tasks[i].fn = "get_dr_hosts" /\ ~tasks[i].result.ok

(* After such a failure the fetch stays in its first stage or fails, and no
   get_dr_host_details work item or request appears. *)
NoStage2Step ==
    Stage1Failed =>
        /\ HostRequests = {}
        /\ pc = "stage1" => pc' \in {"stage1", "failed"}
        /\ \A i \in 1..Len(tasks') : tasks'[i].fn = "get_dr_hosts"
        /\ \A i \in 1..Len(todo') : todo'[i].fn = "get_dr_hosts"
        /\ \A r \in 1..MaxRuns, h \in 1..MaxHostId : DrHostTarget(RunId(r), h) \notin issued'

(* C20: once a get_dr_hosts work item has failed, no get_dr_host_details
   work item is submitted or prepared and no get_dr_host_details request is
   issued in that fetch, also for the hosts of the runs whose get_dr_hosts
   succeeded. *)
C20_Stage1FailureStopsFetch == [][NoStage2Step]_vars

C20_Witness ==
    /\ pc = "failed"
    /\ Len(tasks) = MaxRuns
    /\ tasks[1].fn = "get_dr_hosts"
    /\ tasks[1].result.ok /\ Len(tasks[1].result.value) >= 1
    /\ ~tasks[MaxRuns].result.ok
    /\ HostRequests = {}

====
